---- MODULE Spec2Model ----
(***************************************************************************)
(* A model of src/day1.py: the table normalizer                            *)
(* (clean_table_to_stock_schema), the aggregator                           *)
(* (save_all_tables_single_sheet) and the Streamlit script that drives     *)
(* them.                                                                   *)
(*                                                                         *)
(* Encoding of Python values.  A Python str is a sequence of characters,   *)
(* each character a one-element TLA+ string (NBSP and TAB are named        *)
(* atoms).  A cell or label that is not a str (a number, NaN) is the       *)
(* sequence <<NonStr>> \o r where r is the text str() gives for it, so     *)
(* that str() is a real conversion.                                        *)
(*                                                                         *)
(* A DataFrame is a record [columns, index, rows]: the column labels left  *)
(* to right, the row labels top to bottom, and rows[r][c] the cell of row  *)
(* r under column c.  A raw frame's label is the tuple of its header       *)
(* levels (one level for a flat Index, more for a MultiIndex).             *)
(*                                                                         *)
(* NormSpec runs the normalizer alone, one statement per step, on every    *)
(* raw table of a bounded family.  Spec is one run of the script, from the *)
(* loading of the environment to its last line, with the normalizer called *)
(* once per scraped table.  An exception raised by the browser, the file   *)
(* system or the API client ends the run where it is raised; such faults   *)
(* are not modelled.                                                       *)
(***************************************************************************)
EXTENDS Integers, Sequences, FiniteSets, TLC

VARIABLES
    raw,        \* clean_table_to_stock_schema: the frame passed in
    df,         \* clean_table_to_stock_schema: the local df (then out)
    ret,        \* clean_table_to_stock_schema: the value returned
    npc,        \* clean_table_to_stock_schema: the line reached
    api_key,    \* module global api_key (line 24)
    pc,         \* the script's position in the current run
    tables,     \* the run handler's tables (line 172)
    i,          \* save_all_tables_single_sheet: position of the loop over tables
    cleaned,    \* save_all_tables_single_sheet: cleaned
    skipped,    \* save_all_tables_single_sheet: skipped
    combined_df, \* the run handler's combined_df (line 173)
    out_dir,    \* file system: does psx_output exist
    workbook,   \* file system: contents of psx_output/psx_stocks_single_sheet.xlsx
    scrapes,    \* calls of scrape_all_tables in this run
    writes,     \* workbooks written in this run
    requests,   \* completion requests sent in this run
    errors      \* st.error messages shown in this run

nvars == <<raw, df, ret, npc>>
avars == <<api_key, pc, tables, i, cleaned, skipped, combined_df, out_dir,
           workbook, scrapes, writes, requests, errors>>
vars == <<raw, df, ret, npc, api_key, pc, tables, i, cleaned, skipped,
          combined_df, out_dir, workbook, scrapes, writes, requests, errors>>

\* ------------------------------------------------------------------ bounds

\* Most data rows of a raw table given to the normalizer alone.
MaxRows == 3
\* Most tables one scrape returns.
MaxTables == 3

\* ------------------------------------------------------- Python strings

NBSP == "xa0"
TAB == "tab"
NonStr == "#obj"

\* Python's None, and a local not yet assigned.
None == [none |-> TRUE]
Unset == [unset |-> TRUE]

Range(s) == {s[k] : k \in 1..Len(s)}

Min(S) == CHOOSE m \in S : \A n \in S : m <= n
Max(S) == CHOOSE m \in S : \A n \in S : m >= n

\* The characters str.strip() removes: Unicode whitespace, U+00A0 included.
Whitespace == {" ", TAB, NBSP}

LowerCase == <<"a","b","c","d","e","f","g","h","i","j","k","l","m",
               "n","o","p","q","r","s","t","u","v","w","x","y","z">>
UpperCase == <<"A","B","C","D","E","F","G","H","I","J","K","L","M",
               "N","O","P","Q","R","S","T","U","V","W","X","Y","Z">>

UpperChar(c) ==
    IF \E k \in 1..26 : LowerCase[k] = c
    THEN UpperCase[CHOOSE k \in 1..26 : LowerCase[k] = c]
    ELSE c

LowerChar(c) ==
    IF \E k \in 1..26 : UpperCase[k] = c
    THEN LowerCase[CHOOSE k \in 1..26 : UpperCase[k] = c]
    ELSE c

\* str.upper() and str.lower()
Upper(s) == [k \in 1..Len(s) |-> UpperChar(s[k])]
Lower(s) == [k \in 1..Len(s) |-> LowerChar(s[k])]

\* str.strip()
Strip(s) ==
    LET solid == {k \in 1..Len(s) : s[k] \notin Whitespace}
    IN  IF solid = {} THEN <<>> ELSE SubSeq(s, Min(solid), Max(solid))

\* str.replace("\xa0", " ")
ReplaceNbsp(s) == [k \in 1..Len(s) |-> IF s[k] = NBSP THEN " " ELSE s[k]]

\* str(x)
Str(x) == IF x # <<>> /\ x[1] = NonStr THEN Tail(x) ELSE x

\* str.startswith(p)
StartsWith(s, p) == Len(s) >= Len(p) /\ SubSeq(s, 1, Len(p)) = p

_norm(x) == Upper(Strip(ReplaceNbsp(Str(x))))

\* --------------------------------------------------------------- constants

SCRIP == <<"S","C","R","I","P">>
LDCP == <<"L","D","C","P">>
OPEN == <<"O","P","E","N">>
HIGH == <<"H","I","G","H">>
LOW == <<"L","O","W">>
CURRENT == <<"C","U","R","R","E","N","T">>
CHANGE == <<"C","H","A","N","G","E">>
VOLUME == <<"V","O","L","U","M","E">>

CANON == <<SCRIP, LDCP, OPEN, HIGH, LOW, CURRENT, CHANGE, VOLUME>>
CANON_SET == Range(CANON)

UNNAMED == <<"U","N","N","A","M","E","D">>

\* The least number of canonical cells in row 0 that makes it the header.
MinHeaderHits == 4
\* The least number of canonical columns of a stock table.
MinPresent == 6

\* -------------------------------------------------------------- DataFrames

\* The elements of a set of numbers in increasing order.
Sorted(S) ==
    [k \in 1..Cardinality(S) |-> CHOOSE x \in S : Cardinality({y \in S : y < x}) = k - 1]

\* RangeIndex(n): 0 .. n-1
RangeIndex(n) == [k \in 1..n |-> k - 1]

\* d.iloc[:, keep] for a sequence of column positions
SelectCols(d, keep) ==
    [columns |-> [k \in 1..Len(keep) |-> d.columns[keep[k]]],
     index   |-> d.index,
     rows    |-> [r \in 1..Len(d.rows) |-> [k \in 1..Len(keep) |-> d.rows[r][keep[k]]]]]

\* d.iloc[keep] for a sequence of row positions
SelectRows(d, keep) ==
    [columns |-> d.columns,
     index   |-> [k \in 1..Len(keep) |-> d.index[keep[k]]],
     rows    |-> [k \in 1..Len(keep) |-> d.rows[keep[k]]]]

\* isinstance(columns, pd.MultiIndex)
IsMultiIndex(columns) == \E k \in 1..Len(columns) : Len(columns[k]) > 1

\* --------------------------------------------- clean_table_to_stock_schema

\* lines 52-55: the copy, with each label reduced to its last level
Flatten(t) ==
    [columns |-> [k \in 1..Len(t.columns) |->
                    IF IsMultiIndex(t.columns)
                    THEN t.columns[k][Len(t.columns[k])]
                    ELSE t.columns[k][1]],
     index   |-> t.index,
     rows    |-> t.rows]

\* lines 57 and 67
NormColumns(d) ==
    [d EXCEPT !.columns = [k \in 1..Len(d.columns) |-> _norm(d.columns[k])]]

\* line 58
DropUnnamed(d) ==
    SelectCols(d, Sorted({k \in 1..Len(d.columns) : ~StartsWith(d.columns[k], UNNAMED)}))

\* line 61
Row0(d) == [k \in 1..Len(d.rows[1]) |-> _norm(d.rows[1][k])]

\* line 62: the cells of row 0 that are canonical names, counted with repeats
Hits(d) == Cardinality({k \in 1..Len(d.rows[1]) : Row0(d)[k] \in CANON_SET})

\* Faulty variant: the threshold read as "more than 4".
PromoteHeaderStrict(d) ==
    IF Len(d.rows) > 0 /\ Hits(d) > MinHeaderHits
    THEN [columns |-> Row0(d),
          index   |-> RangeIndex(Len(d.rows) - 1),
          rows    |-> Tail(d.rows)]
    ELSE d

\* lines 60-65
PromoteHeader(d) ==
    IF Len(d.rows) > 0 /\ Hits(d) >= MinHeaderHits
    THEN [columns |-> Row0(d),
          index   |-> RangeIndex(Len(d.rows) - 1),
          rows    |-> Tail(d.rows)]
    ELSE d

\* line 68: Index.duplicated(keep="first")
Duplicated(columns, k) == \E j \in 1..(k - 1) : columns[j] = columns[k]

\* Faulty variant: duplicated(keep="last").
DropDuplicatedKeepLast(d) ==
    SelectCols(d, Sorted({k \in 1..Len(d.columns) :
                            ~\E j \in (k + 1)..Len(d.columns) : d.columns[j] = d.columns[k]}))

DropDuplicated(d) ==
    SelectCols(d, Sorted({k \in 1..Len(d.columns) : ~Duplicated(d.columns, k)}))

\* Faulty variant: the present columns taken in the table's order.
PresentTableOrder(d) == SelectSeq(d.columns, LAMBDA c : c \in CANON_SET)

\* line 70
Present(d) == SelectSeq(CANON, LAMBDA c : c \in Range(d.columns))

\* Faulty variant: a table with exactly 6 canonical columns rejected.
TooFewOffByOne(d) == Len(Present(d)) <= MinPresent

\* line 71
TooFew(d) == Len(Present(d)) < MinPresent

\* The positions df[labels] selects: for each label in turn, every column so labelled.
RECURSIVE Locate(_, _)
Locate(columns, labels) ==
    IF labels = <<>> THEN <<>>
    ELSE Sorted({k \in 1..Len(columns) : columns[k] = Head(labels)})
         \o Locate(columns, Tail(labels))

\* line 74
Project(d) == SelectCols(d, Locate(d.columns, Present(d)))

\* line 77: astype(str).str.strip() on the SCRIP column
TrimScrip(d) ==
    [d EXCEPT !.rows = [r \in 1..Len(d.rows) |->
        [k \in 1..Len(d.columns) |->
            IF d.columns[k] = SCRIP THEN Strip(Str(d.rows[r][k])) ELSE d.rows[r][k]]]]

\* Faulty variant: the comparison made without upper-casing.
NotHeaderRowsCaseSensitive(d) ==
    Sorted({r \in 1..Len(d.rows) :
              \A k \in 1..Len(d.columns) :
                  d.columns[k] = SCRIP => d.rows[r][k] # SCRIP})

\* line 78: the rows whose SCRIP, upper-cased, is not "SCRIP"
NotHeaderRows(d) ==
    Sorted({r \in 1..Len(d.rows) :
              \A k \in 1..Len(d.columns) :
                  d.columns[k] = SCRIP => Upper(d.rows[r][k]) # SCRIP})

\* lines 76-78
ScripCleanup(d) ==
    IF SCRIP \in Range(d.columns)
    THEN SelectRows(TrimScrip(d), NotHeaderRows(TrimScrip(d)))
    ELSE d

\* lines 52-67: the frame as line 68 finds it
Relabelled(t) == NormColumns(PromoteHeader(DropUnnamed(NormColumns(Flatten(t)))))

\* lines 51-80, as one call
clean_table_to_stock_schema(t) ==
    LET d == DropDuplicated(Relabelled(t))
    IN  IF TooFew(d) THEN None ELSE ScripCleanup(Project(d))

\* ---------------------------------------------------------------- raw tables

\* Values a scraped page puts in header and body cells.
Pad(s) == <<" ">> \o s \o <<NBSP>>
Num(s) == <<NonStr>> \o s
NaN == Num(<<"n","a","n">>)
Unn(c) == <<"U","n","n","a","m","e","d",":"," ">> \o c
SECTOR == <<"S","e","c","t","o","r">>
COUNT == <<"C","o","u","n","t">>
MARKET == <<"M","a","r","k","e","t">>
AAA == <<"A","A","A">>
BB == <<" ","B","B",NBSP>>

\* Headers as read_html gives them, one label per column.
Flat(h) == [k \in 1..Len(h) |-> <<h[k]>>]

HFull == Flat(CANON)
HSix == Flat(SubSeq(CANON, 1, 6))
HFive == Flat(SubSeq(CANON, 1, 5) \o << <<"V","O","L",NBSP,"U","M","E">> >>)
HNoise == Flat(<<Unn(<<"0">>), SECTOR, COUNT>>)
Digits == <<"0","1","2","3","4","5","6","7">>
HInts == Flat([k \in 1..8 |-> Num(<<Digits[k]>>)])
HUnnamed == Flat([k \in 1..8 |-> Unn(<<Digits[k]>>)])
HDup == Flat(<<SCRIP, Pad(Lower(SCRIP)), LDCP, OPEN, HIGH, LOW, CURRENT, Lower(LDCP)>>)
HMessy == Flat(<<Unn(<<"0">>), Lower(VOLUME), Pad(SCRIP), LDCP, Lower(OPEN), HIGH,
                 <<NBSP>> \o LOW, CURRENT \o <<TAB>>, SECTOR>>)
HNoScrip == Flat(Tail(CANON))
HMulti == [k \in 1..8 |-> <<CANON[k], MARKET, Lower(CANON[9 - k])>>]

Headers == {HFull, HSix, HFive, HNoise, HInts, HUnnamed, HDup, HMessy, HNoScrip, HMulti}

\* Body rows, cut to the width of the table they go in.
PData1 == <<AAA, <<"1","0">>, NaN, <<"1","1">>, <<"9">>, <<"1","0",".","5">>,
            <<"+","0",".","5">>, Num(<<"1","0","0","0">>), <<"x">> >>
PData2 == <<BB, <<"s","c","r","i","p"," ">>, Num(<<"5">>), NaN, <<"8">>, <<"9">>,
            <<"-","1">>, <<"2","0">>, <<"y">> >>
PHdr == <<Pad(Lower(SCRIP)), LDCP, Lower(OPEN), HIGH, LOW \o <<NBSP>>, CURRENT,
          CHANGE, VOLUME, SECTOR>>
PHdr4 == <<SCRIP, LDCP, OPEN, HIGH, <<"x">>, <<"y">>, <<"z">>, <<"u">>, <<"v">> >>
PHdr3 == <<<<"S","c","r","i","p">>, LDCP, OPEN, <<"1">>, <<"2">>, <<"3">>,
           <<"4">>, <<"5">>, <<"6">> >>

Patterns == {PData1, PData2, PHdr, PHdr4, PHdr3}

RowsOf(width, patterns) == {SubSeq(p, 1, width) : p \in patterns}

\* The frames with header h and at most n rows drawn from the patterns.
Frames(h, patterns, n) ==
    {[columns |-> h, index |-> RangeIndex(Len(rs)), rows |-> rs] :
        rs \in UNION {[1..m -> RowsOf(Len(h), patterns)] : m \in 0..n}}

RawTables == UNION {Frames(h, Patterns, MaxRows) : h \in Headers}

\* ------------------------------------- the normalizer, one step per statement

AppIdle ==
    /\ api_key = Unset
    /\ pc = "idle"
    /\ tables = Unset
    /\ i = 0
    /\ cleaned = Unset
    /\ skipped = 0
    /\ combined_df = Unset
    /\ out_dir = FALSE
    /\ workbook = None
    /\ scrapes = 0
    /\ writes = 0
    /\ requests = 0
    /\ errors = 0

InitNorm ==
    /\ raw \in RawTables
    /\ df = Unset
    /\ ret = Unset
    /\ npc = "copy"
    /\ AppIdle

\* lines 52-55
N_Flatten ==
    /\ npc = "copy"
    /\ df' = Flatten(raw)
    /\ npc' = "norm"
    /\ UNCHANGED <<raw, ret>>
    /\ UNCHANGED avars

\* line 57
N_NormColumns ==
    /\ npc = "norm"
    /\ df' = NormColumns(df)
    /\ npc' = "unnamed"
    /\ UNCHANGED <<raw, ret>>
    /\ UNCHANGED avars

\* line 58
N_DropUnnamed ==
    /\ npc = "unnamed"
    /\ df' = DropUnnamed(df)
    /\ npc' = "promote"
    /\ UNCHANGED <<raw, ret>>
    /\ UNCHANGED avars

\* lines 60-65
N_PromoteHeader ==
    /\ npc = "promote"
    /\ df' = PromoteHeader(df)
    /\ npc' = "renorm"
    /\ UNCHANGED <<raw, ret>>
    /\ UNCHANGED avars

\* line 67
N_Renorm ==
    /\ npc = "renorm"
    /\ df' = NormColumns(df)
    /\ npc' = "dedup"
    /\ UNCHANGED <<raw, ret>>
    /\ UNCHANGED avars

\* line 68
N_DropDuplicated ==
    /\ npc = "dedup"
    /\ df' = DropDuplicated(df)
    /\ npc' = "project"
    /\ UNCHANGED <<raw, ret>>
    /\ UNCHANGED avars

\* lines 70-72: too few canonical columns
N_Reject ==
    /\ npc = "project"
    /\ TooFew(df)
    /\ ret' = None
    /\ npc' = "done"
    /\ UNCHANGED <<raw, df>>
    /\ UNCHANGED avars

\* lines 70-74: out = df[present]
N_Project ==
    /\ npc = "project"
    /\ ~TooFew(df)
    /\ df' = Project(df)
    /\ npc' = "scrip"
    /\ UNCHANGED <<raw, ret>>
    /\ UNCHANGED avars

\* lines 76-80
N_ScripCleanup ==
    /\ npc = "scrip"
    /\ df' = ScripCleanup(df)
    /\ ret' = ScripCleanup(df)
    /\ npc' = "done"
    /\ UNCHANGED raw
    /\ UNCHANGED avars

NextNorm ==
    \/ N_Flatten
    \/ N_NormColumns
    \/ N_DropUnnamed
    \/ N_PromoteHeader
    \/ N_Renorm
    \/ N_DropDuplicated
    \/ N_Reject
    \/ N_Project
    \/ N_ScripCleanup

NormSpec == InitNorm /\ [][NextNorm]_vars

\* --------------------------------------------- save_all_tables_single_sheet

\* The columns of pd.concat: every frame's columns, in order of first appearance.
RECURSIVE UnionColumns(_)
UnionColumns(frames) ==
    IF frames = <<>> THEN <<>>
    ELSE LET before == UnionColumns(SubSeq(frames, 1, Len(frames) - 1))
             last   == frames[Len(frames)].columns
         IN  before \o SelectSeq(last, LAMBDA c : c \notin Range(before))

\* One frame's rows laid out under the given columns, NaN where it has none.
Reindexed(f, columns) ==
    [r \in 1..Len(f.rows) |->
        [k \in 1..Len(columns) |->
            IF columns[k] \in Range(f.columns)
            THEN f.rows[r][CHOOSE j \in 1..Len(f.columns) : f.columns[j] = columns[k]]
            ELSE NaN]]

RECURSIVE ConcatRows(_, _)
ConcatRows(frames, columns) ==
    IF frames = <<>> THEN <<>>
    ELSE Reindexed(Head(frames), columns) \o ConcatRows(Tail(frames), columns)

RECURSIVE ConcatIndex(_)
ConcatIndex(frames) ==
    IF frames = <<>> THEN <<>>
    ELSE Head(frames).index \o ConcatIndex(Tail(frames))

\* Faulty variant: pd.concat without ignore_index.
ConcatKeepIndex(frames) ==
    [columns |-> UnionColumns(frames),
     index   |-> ConcatIndex(frames),
     rows    |-> ConcatRows(frames, UnionColumns(frames))]

\* line 104: pd.concat(cleaned, ignore_index=True)
Concat(frames) ==
    [columns |-> UnionColumns(frames),
     index   |-> RangeIndex(Len(ConcatRows(frames, UnionColumns(frames)))),
     rows    |-> ConcatRows(frames, UnionColumns(frames))]

\* lines 110-111: to_excel(sheet_name="AllData", index=False); NaN is an empty cell
ToExcel(d) ==
    [sheet  |-> "AllData",
     header |-> d.columns,
     rows   |-> [r \in 1..Len(d.rows) |->
                   [k \in 1..Len(d.columns) |->
                       IF d.rows[r][k] = NaN THEN <<>> ELSE d.rows[r][k]]]]

\* DataFrame.empty
Empty(d) == Len(d.index) = 0 \/ Len(d.columns) = 0

\* Faulty variant: only None tested.
NoneOnly(d) == d = None

\* line 175: combined_df is None or combined_df.empty
NoneOrEmpty(d) == IF d = None THEN TRUE ELSE Empty(d)

\* ------------------------------------------------------------ the script

\* What os.getenv can give for OPENAI_API_KEY: unset, set but empty, set.
Keys == {None, <<>>, <<"s","k">>}

\* Python truth of the key
Truthy(k) == k # None /\ k # <<>>

\* Tables a scrape of the page can return.
Scraped1 == [columns |-> HFull, index |-> RangeIndex(1), rows |-> <<PData1>>]
Scraped2 == [columns |-> HNoise, index |-> RangeIndex(1), rows |-> <<SubSeq(PData2, 1, 3)>>]
Scraped3 ==
    [columns |-> HSix, index |-> RangeIndex(3),
     rows |-> <<SubSeq(PData1, 1, 6), SubSeq(PHdr3, 1, 6), SubSeq(PData2, 1, 6)>>]
Scraped4 == [columns |-> HInts, index |-> RangeIndex(1), rows |-> <<SubSeq(PHdr, 1, 8)>>]
Scraped5 == [columns |-> HNoScrip, index |-> RangeIndex(1), rows |-> <<SubSeq(PData2, 1, 7)>>]
Scraped6 == [columns |-> HFive, index |-> RangeIndex(1), rows |-> <<SubSeq(PData1, 1, 6)>>]

ScrapedTables == {Scraped1, Scraped2, Scraped3, Scraped4, Scraped5, Scraped6}

\* lines 27-44: any list of tables, the empty list when read_html finds none
ScrapeResults == UNION {[1..n -> ScrapedTables] : n \in 0..MaxTables}

\* What earlier runs may have left on disk.
StaleWorkbook == ToExcel(Concat(<<clean_table_to_stock_schema(Scraped1)>>))
InitialDisk == {<<FALSE, None>>, <<TRUE, None>>, <<TRUE, StaleWorkbook>>}

Init ==
    /\ raw = Unset
    /\ df = Unset
    /\ ret = Unset
    /\ npc = "idle"
    /\ api_key = Unset
    /\ pc = "load"
    /\ tables = Unset
    /\ i = 0
    /\ cleaned = Unset
    /\ skipped = 0
    /\ combined_df = Unset
    /\ \E disk \in InitialDisk : out_dir = disk[1] /\ workbook = disk[2]
    /\ scrapes = 0
    /\ writes = 0
    /\ requests = 0
    /\ errors = 0

\* lines 23-24
LoadEnv ==
    /\ pc = "load"
    /\ api_key' \in Keys
    /\ pc' = "credential"
    /\ UNCHANGED <<tables, i, cleaned, skipped, combined_df, out_dir, workbook,
                   scrapes, writes, requests, errors>>
    /\ UNCHANGED nvars

\* Faulty variant: the error shown, st.stop() left out.
CredentialMissingNoStop ==
    /\ pc = "credential"
    /\ ~Truthy(api_key)
    /\ errors' = errors + 1
    /\ pc' = "button"
    /\ UNCHANGED <<api_key, tables, i, cleaned, skipped, combined_df, out_dir,
                   workbook, scrapes, writes, requests>>
    /\ UNCHANGED nvars

\* lines 154-156: st.error, st.stop
CredentialMissing ==
    /\ pc = "credential"
    /\ ~Truthy(api_key)
    /\ errors' = errors + 1
    /\ pc' = "stopped"
    /\ UNCHANGED <<api_key, tables, i, cleaned, skipped, combined_df, out_dir,
                   workbook, scrapes, writes, requests>>
    /\ UNCHANGED nvars

\* line 154, the key present
CredentialPresent ==
    /\ pc = "credential"
    /\ Truthy(api_key)
    /\ pc' = "button"
    /\ UNCHANGED <<api_key, tables, i, cleaned, skipped, combined_df, out_dir,
                   workbook, scrapes, writes, requests, errors>>
    /\ UNCHANGED nvars

\* lines 158-170: the widgets; st.button is True in the run a press started
ButtonPressed ==
    /\ pc = "button"
    /\ pc' = "scrape"
    /\ UNCHANGED <<api_key, tables, i, cleaned, skipped, combined_df, out_dir,
                   workbook, scrapes, writes, requests, errors>>
    /\ UNCHANGED nvars

ButtonIdle ==
    /\ pc = "button"
    /\ pc' = "end"
    /\ UNCHANGED <<api_key, tables, i, cleaned, skipped, combined_df, out_dir,
                   workbook, scrapes, writes, requests, errors>>
    /\ UNCHANGED nvars

\* line 172
Scrape ==
    /\ pc = "scrape"
    /\ tables' \in ScrapeResults
    /\ scrapes' = scrapes + 1
    /\ pc' = "aggregate"
    /\ UNCHANGED <<api_key, i, cleaned, skipped, combined_df, out_dir, workbook,
                   writes, requests, errors>>
    /\ UNCHANGED nvars

\* lines 88-89
AggregateEmpty ==
    /\ pc = "aggregate"
    /\ tables = <<>>
    /\ combined_df' = None
    /\ pc' = "check"
    /\ UNCHANGED <<api_key, tables, i, cleaned, skipped, out_dir, workbook,
                   scrapes, writes, requests, errors>>
    /\ UNCHANGED nvars

\* lines 91-92
AggregateStart ==
    /\ pc = "aggregate"
    /\ tables # <<>>
    /\ cleaned' = <<>>
    /\ skipped' = 0
    /\ i' = 1
    /\ pc' = "loop"
    /\ UNCHANGED <<api_key, tables, combined_df, out_dir, workbook,
                   scrapes, writes, requests, errors>>
    /\ UNCHANGED nvars

\* lines 94-99, one table
AggregateTable ==
    /\ pc = "loop"
    /\ i <= Len(tables)
    /\ LET fixed == clean_table_to_stock_schema(tables[i])
       IN  IF fixed = None
           THEN skipped' = skipped + 1 /\ UNCHANGED cleaned
           ELSE cleaned' = Append(cleaned, fixed) /\ UNCHANGED skipped
    /\ i' = i + 1
    /\ UNCHANGED <<api_key, pc, tables, combined_df, out_dir, workbook,
                   scrapes, writes, requests, errors>>
    /\ UNCHANGED nvars

\* Faulty variant: the output directory made before cleaned is tested.
AggregateNoneMkdir ==
    /\ pc = "loop"
    /\ i > Len(tables)
    /\ cleaned = <<>>
    /\ combined_df' = None
    /\ out_dir' = TRUE
    /\ pc' = "check"
    /\ UNCHANGED <<api_key, tables, i, cleaned, skipped, workbook,
                   scrapes, writes, requests, errors>>
    /\ UNCHANGED nvars

\* lines 101-102
AggregateNone ==
    /\ pc = "loop"
    /\ i > Len(tables)
    /\ cleaned = <<>>
    /\ combined_df' = None
    /\ pc' = "check"
    /\ UNCHANGED <<api_key, tables, i, cleaned, skipped, out_dir, workbook,
                   scrapes, writes, requests, errors>>
    /\ UNCHANGED nvars

\* lines 104-113
AggregateSave ==
    /\ pc = "loop"
    /\ i > Len(tables)
    /\ cleaned # <<>>
    /\ combined_df' = Concat(cleaned)
    /\ out_dir' = TRUE
    /\ workbook' = ToExcel(Concat(cleaned))
    /\ writes' = writes + 1
    /\ pc' = "check"
    /\ UNCHANGED <<api_key, tables, i, cleaned, skipped, scrapes, requests, errors>>
    /\ UNCHANGED nvars

\* Faulty variant: the scrape tried again after the error.
NoDataRetry ==
    /\ pc = "check"
    /\ NoneOrEmpty(combined_df)
    /\ scrapes < 2
    /\ errors' = errors + 1
    /\ pc' = "scrape"
    /\ UNCHANGED <<api_key, tables, i, cleaned, skipped, combined_df, out_dir,
                   workbook, scrapes, writes, requests>>
    /\ UNCHANGED nvars

\* lines 175-177: st.error, st.stop
NoData ==
    /\ pc = "check"
    /\ NoneOrEmpty(combined_df)
    /\ errors' = errors + 1
    /\ pc' = "stopped"
    /\ UNCHANGED <<api_key, tables, i, cleaned, skipped, combined_df, out_dir,
                   workbook, scrapes, writes, requests>>
    /\ UNCHANGED nvars

\* lines 175-180
ShowData ==
    /\ pc = "check"
    /\ ~NoneOrEmpty(combined_df)
    /\ pc' = "ask"
    /\ UNCHANGED <<api_key, tables, i, cleaned, skipped, combined_df, out_dir,
                   workbook, scrapes, writes, requests, errors>>
    /\ UNCHANGED nvars

\* lines 182-183 and 140-146
Summarize ==
    /\ pc = "ask"
    /\ requests' = requests + 1
    /\ pc' = "answer"
    /\ UNCHANGED <<api_key, tables, i, cleaned, skipped, combined_df, out_dir,
                   workbook, scrapes, writes, errors>>
    /\ UNCHANGED nvars

\* lines 185-186
ShowAnswer ==
    /\ pc = "answer"
    /\ pc' = "end"
    /\ UNCHANGED <<api_key, tables, i, cleaned, skipped, combined_df, out_dir,
                   workbook, scrapes, writes, requests, errors>>
    /\ UNCHANGED nvars

Next ==
    \/ LoadEnv
    \/ CredentialMissing
    \/ CredentialPresent
    \/ ButtonPressed
    \/ ButtonIdle
    \/ Scrape
    \/ AggregateEmpty
    \/ AggregateStart
    \/ AggregateTable
    \/ AggregateNone
    \/ AggregateSave
    \/ NoData
    \/ ShowData
    \/ Summarize
    \/ ShowAnswer

Spec == Init /\ [][Next]_vars

\* ============================================================== properties
\* Properties of the normalizer are stated of NormSpec, the others of Spec.

\* The position of a canonical name in CANON.
CanonPos(c) == CHOOSE k \in 1..Len(CANON) : CANON[k] = c

\* A SCRIP cell that is the header token: "SCRIP" once made text, trimmed and case-folded.
IsHeaderToken(v) == Upper(Strip(Str(v))) = SCRIP

\* C1: a table the normalizer returns has 6 to 8 columns, each labelled with a
\* canonical name, no label twice, in canonical order, and no row whose SCRIP
\* is the header token.
C1_OutputSchema ==
    (npc = "done" /\ ret # None) =>
        /\ Len(ret.columns) >= 6
        /\ Len(ret.columns) <= 8
        /\ \A k \in 1..Len(ret.columns) : ret.columns[k] \in CANON_SET
        /\ \A j, k \in 1..Len(ret.columns) :
               j < k => /\ ret.columns[j] # ret.columns[k]
                        /\ CanonPos(ret.columns[j]) < CanonPos(ret.columns[k])
        /\ \A r \in 1..Len(ret.rows) : \A k \in 1..Len(ret.columns) :
               ret.columns[k] = SCRIP => ~IsHeaderToken(ret.rows[r][k])

\* C1 witness: a table with duplicated and reordered labels is returned with
\* a header-token row removed from it.
C1_Witness ==
    /\ npc = "done"
    /\ ret # None
    /\ raw.columns = HDup
    /\ Len(ret.columns) = 6
    /\ Len(ret.rows) = 1
    /\ Len(raw.rows) = 2

\* The canonical names among the labels left when line 70 is reached.
Matching(t) == {c \in CANON_SET : c \in Range(DropDuplicated(Relabelled(t)).columns)}

\* C2: the normalizer returns None exactly when fewer than 6 distinct canonical
\* names are among the labels left after flattening, normalization, UNNAMED
\* removal, header promotion and duplicate removal; otherwise it returns a table.
C2_RejectedIffFewerThanSix ==
    npc = "done" => (ret = None <=> Cardinality(Matching(raw)) < 6)

\* C2 witness: both sides of the threshold, 5 names rejected.
C2_Witness ==
    /\ npc = "done"
    /\ ret = None
    /\ Cardinality(Matching(raw)) = 5
    /\ Len(raw.rows) = 1

\* The cells of row 0 that are canonical names once normalized.
CanonCells(d) == {k \in 1..Len(d.rows[1]) : _norm(d.rows[1][k]) \in CANON_SET}

C6_ScripRowsRemoved ==
    [][(npc = "scrip" /\ SCRIP \in Range(df.columns)) =>
          LET p == CHOOSE k \in 1..Len(df.columns) : df.columns[k] = SCRIP
              kept == Sorted({r \in 1..Len(df.rows) : ~IsHeaderToken(df.rows[r][p])})
          IN  /\ ret'.columns = df.columns
              /\ Len(ret'.rows) = Len(kept)
              /\ ret'.index = [k \in 1..Len(kept) |-> df.index[kept[k]]]
              /\ \A k \in 1..Len(kept) : \A c \in 1..Len(df.columns) :
                     c # p => ret'.rows[k][c] = df.rows[kept[k]][c]
      ]_vars

\* C6 witness: a header-token row in the middle of three is gone.
C6_Witness ==
    /\ npc = "done"
    /\ ret # None
    /\ raw.columns = HFull
    /\ Len(raw.rows) = 3
    /\ ret.index = <<0, 2>>

\* The leftmost column of a label.
Leftmost(columns, label) == Min({k \in 1..Len(columns) : columns[k] = label})

Repeated(columns, label) == Cardinality({k \in 1..Len(columns) : columns[k] = label}) >= 2

\* C7 as stated: of columns with one normalized label the output holds only
\* the leftmost, with that column's cell values.
C7_LeftmostValuesVerbatim ==
    (npc = "done" /\ ret # None) =>
        \A c \in 1..Len(ret.columns) :
            Repeated(Relabelled(raw).columns, ret.columns[c]) =>
                /\ Cardinality({j \in 1..Len(ret.columns) : ret.columns[j] = ret.columns[c]}) = 1
                /\ \A r \in 1..Len(ret.rows) :
                       ret.rows[r][c] =
                           Relabelled(raw).rows[ret.index[r] + 1]
                               [Leftmost(Relabelled(raw).columns, ret.columns[c])]

\* C7 amended: of columns with one normalized label the output holds only the
\* leftmost, with that column's cell values, those of SCRIP made text and trimmed.
C7_LeftmostSurvives ==
    (npc = "done" /\ ret # None) =>
        \A c \in 1..Len(ret.columns) :
            Repeated(Relabelled(raw).columns, ret.columns[c]) =>
                /\ Cardinality({j \in 1..Len(ret.columns) : ret.columns[j] = ret.columns[c]}) = 1
                /\ \A r \in 1..Len(ret.rows) :
                       LET v == Relabelled(raw).rows[ret.index[r] + 1]
                                    [Leftmost(Relabelled(raw).columns, ret.columns[c])]
                       IN  ret.rows[r][c] = IF ret.columns[c] = SCRIP THEN Strip(Str(v)) ELSE v

\* C7 witness: two SCRIP and two LDCP columns, and a row that differs between them.
C7_Witness ==
    /\ npc = "done"
    /\ ret # None
    /\ raw.columns = HDup
    /\ Len(raw.rows) = 1
    /\ Len(ret.rows) = 1
    /\ ret.rows[1][1] = AAA

\* The tables the normalizer accepts, as it returns them, in the order supplied.
RECURSIVE Accepted(_)
Accepted(ts) ==
    IF ts = <<>> THEN <<>>
    ELSE (IF clean_table_to_stock_schema(Head(ts)) = None
          THEN <<>>
          ELSE <<clean_table_to_stock_schema(Head(ts))>>) \o Accepted(Tail(ts))

AllRejected(ts) == \A k \in 1..Len(ts) : clean_table_to_stock_schema(ts[k]) = None

RECURSIVE RowCount(_)
RowCount(frames) ==
    IF frames = <<>> THEN 0 ELSE Len(Head(frames).rows) + RowCount(Tail(frames))

\* The aggregator has returned.
Aggregated == combined_df # Unset

\* C3: with an empty list, or with every table rejected, the aggregator returns
\* None and changes nothing on disk: no directory made, no workbook written.
C3_NoneLeavesDiskAlone ==
    [][(pc \in {"aggregate", "loop"} /\ AllRejected(tables)) =>
          /\ UNCHANGED <<out_dir, workbook, writes>>
          /\ pc' = "check" => combined_df' = None
      ]_vars

\* C3 witness: two tables, both rejected, and still no output directory.
C3_Witness ==
    /\ pc = "check"
    /\ Len(tables) = 2
    /\ AllRejected(tables)
    /\ combined_df = None
    /\ out_dir = FALSE
    /\ skipped = 2

\* C4: the combined dataset has the accepted tables' rows, in the order the
\* tables were supplied, under the union of their columns, a field a table
\* lacks being empty in its rows; its index is 0, 1, 2, ...; rejected tables
\* add nothing.
C4_CombinedDataset ==
    (Aggregated /\ combined_df # None) =>
        LET acc == Accepted(tables)
            start(j) == RowCount(SubSeq(acc, 1, j - 1))
        IN  /\ Len(combined_df.rows) = RowCount(acc)
            /\ Range(combined_df.columns) = UNION {Range(acc[j].columns) : j \in 1..Len(acc)}
            /\ \A a, b \in 1..Len(combined_df.columns) :
                   a # b => combined_df.columns[a] # combined_df.columns[b]
            /\ combined_df.index = [k \in 1..RowCount(acc) |-> k - 1]
            /\ \A j \in 1..Len(acc) : \A r \in 1..Len(acc[j].rows) :
                   \A c \in 1..Len(combined_df.columns) :
                       combined_df.rows[start(j) + r][c] =
                           IF \E k \in 1..Len(acc[j].columns) :
                                  acc[j].columns[k] = combined_df.columns[c]
                           THEN acc[j].rows[r][CHOOSE k \in 1..Len(acc[j].columns) :
                                                  acc[j].columns[k] = combined_df.columns[c]]
                           ELSE NaN

\* C4 witness: a table of 6 columns and one of 8 accepted, one rejected between them.
C4_Witness ==
    /\ pc = "check"
    /\ tables = <<Scraped3, Scraped2, Scraped1>>
    /\ Len(combined_df.rows) = 3
    /\ Len(combined_df.columns) = 8
    /\ combined_df.rows[1][7] = NaN
    /\ skipped = 1

\* C8: with no credential in the environment the run shows an error and stops
\* where it started: nothing is scraped, written or requested.
C8_NoCredentialNoWork ==
    (api_key # Unset /\ ~Truthy(api_key)) =>
        /\ pc \in {"credential", "stopped"}
        /\ pc = "stopped" => (errors = 1 /\ ~ENABLED Next)
        /\ scrapes = 0
        /\ writes = 0
        /\ requests = 0
        /\ tables = Unset

\* C8 witness: the key set but empty, the run stopped with its error.
C8_Witness ==
    /\ pc = "stopped"
    /\ api_key = <<>>
    /\ errors = 1
    /\ scrapes = 0

\* C9: in a run, at most one scrape and one request, the request after the
\* scrape and the aggregation; when the aggregator returns None the run shows
\* one error and stops, with no request and no second scrape.
C9_OneScrapeOneRequest ==
    /\ scrapes <= 1
    /\ requests <= 1
    /\ requests = 1 => (scrapes = 1 /\ Aggregated /\ pc \in {"answer", "end"})
    /\ (Aggregated /\ combined_df = None /\ pc # "check") =>
           /\ pc = "stopped"
           /\ errors = 1
           /\ requests = 0
           /\ scrapes = 1
           /\ ~ENABLED Next

\* C9 witness: every table rejected, one error shown, the run stopped.
C9_Witness ==
    /\ pc = "stopped"
    /\ combined_df = None
    /\ Len(tables) = 3
    /\ scrapes = 1
    /\ errors = 1
    /\ requests = 0

\* C10: the workbook is written exactly when a table is accepted, which is
\* exactly when the aggregator returns a dataset; a dataset of no rows is
\* written too, yet the run then stops with the error and sends no request;
\* a request is sent only for a dataset with at least one row.
C10_WriteIffAccepted ==
    Aggregated =>
        /\ writes = (IF AllRejected(tables) THEN 0 ELSE 1)
        /\ combined_df # None <=> ~AllRejected(tables)
        /\ combined_df # None => workbook = ToExcel(combined_df)
        /\ (combined_df # None /\ Len(combined_df.rows) = 0 /\ pc # "check") =>
               /\ pc = "stopped"
               /\ errors = 1
               /\ requests = 0
        /\ requests >= 1 => (combined_df # None /\ Len(combined_df.rows) >= 1)

\* C10 witness: a table left with no rows by the header promotion was written
\* to the workbook, and the run stopped without a request.
C10_Witness ==
    /\ pc = "stopped"
    /\ Aggregated
    /\ combined_df # None
    /\ tables = <<Scraped4>>
    /\ Len(combined_df.rows) = 0
    /\ writes = 1
    /\ workbook.header = CANON
    /\ workbook.rows = <<>>
    /\ requests = 0

====
